---- MODULE Spec2Model ----
(***************************************************************************)
(* Model of huelib's bridge client (src/src/bridge.rs) and of the Modifier *)
(* trait (src/src/lib.rs).  Every public Bridge operation is synchronous   *)
(* and stateless: it builds a request, hands it to the transport, and      *)
(* interprets the JSON that comes back.  One action models one operation   *)
(* from call to return; the transport's answer is an input of the action.  *)
(***************************************************************************)
EXTENDS Integers, Sequences, FiniteSets, TLC

\* Longest bulk response array the transport hands back.
MaxLen == 3

----------------------------------------------------------------------------
(* JSON values handed back by the transport *)

JString(s) == [type |-> "string", text |-> s]
JNumber(s) == [type |-> "number", text |-> s]

\* Members of a "success" payload object and the values they may carry.
PayloadKeys == {"id", "name"}
PayloadVals(k) == IF k = "id" THEN {JString("5"), JNumber("200")} ELSE {JString("x")}

\* A "success" payload: a JSON object over a subset of PayloadKeys.
Payloads ==
    UNION { { p \in [K -> UNION {PayloadVals(k) : k \in K}] :
                \A k \in K : p[k] \in PayloadVals(k) } : K \in SUBSET PayloadKeys }

\* The data of an "error" entry: type, address, description.
ErrorData ==
    { [type |-> "3", address |-> "/lights/5", description |-> "resource not available"],
      [type |-> "7", address |-> "/lights/1/state/bri", description |-> "invalid value"] }

SuccessEntry(p) == [tag |-> "success", payload |-> p]
ErrorEntry(e) == [tag |-> "error", data |-> e]
\* An array element that is neither {"success": ..} nor {"error": ..}.
JunkEntry == [tag |-> "junk"]

Entries == {SuccessEntry(p) : p \in Payloads} \cup {ErrorEntry(e) : e \in ErrorData}
              \cup {JunkEntry}

SeqsUpTo(S, n) == UNION { [1..k -> S] : k \in 0..n }

Ids == {"1", "2"}
BodyIds == {"1", "9"}

\* A resource body: a JSON object with an optional "name" and an optional "id".
Bodies ==
    UNION { { b \in [K -> {"lamp"} \cup BodyIds] :
                /\ ("name" \in K => b["name"] = "lamp")
                /\ ("id" \in K => b["id"] \in BodyIds) } : K \in SUBSET {"name", "id"} }

JArray(es) == [kind |-> "array", elems |-> es]
JObject(b) == [kind |-> "object", members |-> b]
JMap(m) == [kind |-> "map", items |-> m]
JScalar == [kind |-> "scalar"]

\* Collection responses: an object mapping identifiers to resource bodies.
Collections == UNION { [K -> Bodies] : K \in (SUBSET Ids) \ {{}} }

JsonValues ==
    {JArray(es) : es \in SeqsUpTo(Entries, MaxLen)}
      \cup {JObject(b) : b \in Bodies}
      \cup {JMap(m) : m \in Collections}
      \cup {JScalar}

\* A "success" payload of the registration endpoint: an object with an
\* optional "username" and an optional "clientkey".
UserPayloadVals(k) ==
    IF k = "username" THEN {JString("u1"), JNumber("1")} ELSE {JString("k1")}
UserPayloads ==
    UNION { { p \in [K -> UNION {UserPayloadVals(k) : k \in K}] :
                \A k \in K : p[k] \in UserPayloadVals(k) }
            : K \in SUBSET {"username", "clientkey"} }
UserEntries ==
    {SuccessEntry(p) : p \in UserPayloads} \cup {ErrorEntry(e) : e \in ErrorData}
      \cup {JunkEntry}

\* What the transport produces for one request: no usable response, a body
\* that is not JSON, or a JSON value.
TransportOutcomes ==
    {[kind |-> "neterr"], [kind |-> "badjson"]}
      \cup {[kind |-> "json", value |-> v] : v \in JsonValues}

\* The same for the registration endpoint.
UserTransportOutcomes ==
    {[kind |-> "neterr"], [kind |-> "badjson"], [kind |-> "json", value |-> JScalar]}
      \cup {[kind |-> "json", value |-> JArray(es)] : es \in SeqsUpTo(UserEntries, MaxLen)}

----------------------------------------------------------------------------
(* Results *)

Ok(v) == [ok |-> TRUE, val |-> v]
Err(k) == [ok |-> FALSE, err |-> k]
ErrResponse(e) == [ok |-> FALSE, err |-> "Response", data |-> e]
Unit == "()"

IsErr(r, k) == ~r.ok /\ r.err = k
IsResponseErr(r, e) == IsErr(r, "Response") /\ r.data = e

----------------------------------------------------------------------------
(* response::Response<T> and serde_json::from_value *)

\* Response<T>: Success(T) or Error(response::Error).
ResponseSuccess(v) == [variant |-> "Success", value |-> v]
ResponseError(e) == [variant |-> "Error", error |-> e]

\* Response<T>::into_result: Success(v) is Ok(v), Error(e) is Err(e); `?` and
\* map_err(Error::Response) wrap e in Error::Response.
into_result(r) ==
    IF r.variant = "Success" THEN Ok(r.value) ELSE ErrResponse(r.error)

\* Whether a success payload deserializes as the payload type P.
DecodesPayload(P, p) ==
    CASE P = "Value" -> TRUE
      [] P = "Map" -> \A k \in DOMAIN p : p[k].type = "string"
      [] P = "Modified" -> DOMAIN p # {}
      [] P = "User" ->
           /\ "username" \in DOMAIN p
           /\ \A k \in DOMAIN p : p[k].type = "string"

\* The payload as a value of type P: a HashMap<String, String> holds the
\* strings themselves, the other types keep the JSON.
DecodePayload(P, p) ==
    CASE P = "Map" -> [k \in DOMAIN p |-> p[k].text]
      [] P = "User" ->
           [name |-> p["username"].text,
            clientkey |-> IF "clientkey" \in DOMAIN p THEN <<p["clientkey"].text>>
                          ELSE <<>>]
      [] OTHER -> p

\* Whether one array element deserializes as Response<P>.
DecodesEntry(P, e) ==
    \/ e.tag = "error"
    \/ e.tag = "success" /\ DecodesPayload(P, e.payload)

DecodeEntry(P, e) ==
    IF e.tag = "success" THEN ResponseSuccess(DecodePayload(P, e.payload))
    ELSE ResponseError(e.data)

\* Deserializing a resource body as a resource struct (Light, Group, Config,
\* ...): "name" is required; the struct starts with whatever id the body had.
DecodesResource(b) == "name" \in DOMAIN b
Resource(b) ==
    [id |-> IF "id" \in DOMAIN b THEN b["id"] ELSE "", name |-> b["name"]]

IsEmptyObject(v) ==
    \/ v.kind = "object" /\ DOMAIN v.members = {}
    \/ v.kind = "map" /\ DOMAIN v.items = {}

\* serde_json::from_value::<T>(v); a mismatch is a serde_json::Error, which
\* `?` turns into Error::ParseJson.
from_value(T, v) ==
    CASE T = "Value" -> Ok(v)
      [] T \in {"VecResponseValue", "VecResponseMap", "VecResponseModified",
                 "VecResponseUser"} ->
           LET P == CASE T = "VecResponseValue" -> "Value"
                      [] T = "VecResponseMap" -> "Map"
                      [] T = "VecResponseModified" -> "Modified"
                      [] T = "VecResponseUser" -> "User"
           IN IF v.kind = "array" /\ \A i \in 1..Len(v.elems) : DecodesEntry(P, v.elems[i])
              THEN Ok([i \in 1..Len(v.elems) |-> DecodeEntry(P, v.elems[i])])
              ELSE Err("ParseJson")
      [] T = "Resource" ->
           IF v.kind = "object" /\ DecodesResource(v.members)
           THEN Ok(Resource(v.members))
           ELSE Err("ParseJson")
      [] T = "Collection" ->
           IF IsEmptyObject(v) THEN Ok(<<>>)
           ELSE IF v.kind = "map" /\ \A k \in DOMAIN v.items : DecodesResource(v.items[k])
           THEN Ok([k \in DOMAIN v.items |-> Resource(v.items[k])])
           ELSE Err("ParseJson")

\* Light::with_id and its siblings: the identifier replaces the struct's id.
with_id(r, id) == [r EXCEPT !.id = id]

----------------------------------------------------------------------------
(* bridge.rs *)

RequestTypePut(v) == [method |-> "PUT", body |-> v]
RequestTypePost(v) == [method |-> "POST", body |-> v]
RequestTypeGet == [method |-> "GET", body |-> <<>>]
RequestTypeDelete == [method |-> "DELETE", body |-> <<>>]

\* Bridge::new
BridgeNew(ip_address, username) ==
    [username |-> username, ip_address |-> ip_address,
     api_url |-> <<"http://", ip_address, "/api/", username>>]

\* What an operation leaves behind: the requests it issued and its result.
Outcome(sent, result) == [sent |-> sent, result |-> result]

\* register_user as it would be with the match of create_* copied in.
register_user_created_id(ip_address, devicetype, generate_clientkey, t) ==
    LET url == <<"http://", ip_address, "/api">>
        body == IF generate_clientkey
                THEN <<"devicetype", devicetype, "generateclientkey", TRUE>>
                ELSE <<"devicetype", devicetype>>
        request == [method |-> "POST", url |-> url, body |-> body]
        responses == IF t.kind = "json" THEN from_value("VecResponseUser", t.value)
                     ELSE Err("ParseHttpResponse")
    IN Outcome(<<request>>,
               IF ~responses.ok THEN responses
               ELSE IF responses.val = <<>> THEN Err("GetCreatedId")
               ELSE into_result(responses.val[Len(responses.val)]))

\* register_user
register_user(ip_address, devicetype, generate_clientkey, t) ==
    LET url == <<"http://", ip_address, "/api">>
        body == IF generate_clientkey
                THEN <<"devicetype", devicetype, "generateclientkey", TRUE>>
                ELSE <<"devicetype", devicetype>>
        request == [method |-> "POST", url |-> url, body |-> body]
        responses == IF t.kind = "json" THEN from_value("VecResponseUser", t.value)
                     ELSE Err("ParseHttpResponse")
    IN Outcome(<<request>>,
               IF ~responses.ok THEN responses
               ELSE IF responses.val = <<>> THEN Err("GetUsername")
               ELSE into_result(responses.val[Len(responses.val)]))

\* api_request as it would be if a failed exchange were tried again.
api_request_retry(b, url_suffix, request_type, T, t) ==
    LET url == <<b.api_url, "/", url_suffix>>
        request == [method |-> request_type.method, url |-> url,
                    body |-> request_type.body]
    IN Outcome(IF t.kind = "json" THEN <<request>> ELSE <<request, request>>,
               IF t.kind = "json" THEN from_value(T, t.value)
               ELSE Err("ParseHttpResponse"))

\* Bridge::api_request: one request to {api_url}/{suffix}; the transport's
\* answer t is read as JSON and deserialized as T.
api_request(b, url_suffix, request_type, T, t) ==
    LET url == <<b.api_url, "/", url_suffix>>
        request == [method |-> request_type.method, url |-> url,
                    body |-> request_type.body]
    IN Outcome(<<request>>,
               IF t.kind = "json" THEN from_value(T, t.value)
               ELSE Err("ParseHttpResponse"))

\* parse_response as it would be if a failed bulk decoding were reported.
parse_response_strict(T, response) ==
    LET bulk == from_value("VecResponseValue", response)
    IN IF ~bulk.ok THEN bulk
       ELSE IF Len(bulk.val) > 0 /\ ~into_result(bulk.val[Len(bulk.val)]).ok
       THEN into_result(bulk.val[Len(bulk.val)])
       ELSE from_value(T, response)

\* parse_response::<T>
parse_response(T, response) ==
    LET bulk == from_value("VecResponseValue", response)
    IN IF bulk.ok /\ Len(bulk.val) > 0 /\ ~into_result(bulk.val[Len(bulk.val)]).ok
       THEN into_result(bulk.val[Len(bulk.val)])
       ELSE from_value(T, response)

----------------------------------------------------------------------------
(* lib.rs: the Modifier trait, over a light::StateModifier-shaped struct *)

None == <<>>
Some(v) == <<v>>

\* Fields of the modifier struct, under their wire names; each is an Option.
ModifierFields == {"on", "bri", "bri_inc", "sat", "sat_inc", "xy", "xy_inc"}

\* Default::default(): every field None.
Default == [f \in ModifierFields |-> None]

\* Modifier::new
ModifierNew == Default

\* is_empty as it would be if it looked at the override fields alone.
is_empty_overrides(m) ==
    \A f \in {"on", "bri", "sat"} : m[f] = None

\* Modifier::is_empty
is_empty(m) == m = Default

\* Serialize as it would be if fields that are None were written as null.
to_value_with_nulls(m) ==
    [f \in ModifierFields |-> IF m[f] = None THEN "null" ELSE m[f][1]]

\* Serialize for a modifier: fields that are None are skipped.
to_value(m) ==
    [f \in {g \in ModifierFields : m[g] # None} |-> m[f][1]]

\* StateModifier::on
on(m, value) == [m EXCEPT !["on"] = Some(value)]

\* brightness as it would be if a value already pending were kept.
brightness_first_wins(m, modifier_type, value) ==
    LET f == IF modifier_type = "Override" THEN "bri" ELSE "bri_inc"
        v == IF modifier_type = "Decrement" THEN 0 - value ELSE value
    IN IF m[f] # None THEN m ELSE [m EXCEPT ![f] = Some(v)]

\* StateModifier::brightness
brightness(m, modifier_type, value) ==
    CASE modifier_type = "Override" -> [m EXCEPT !["bri"] = Some(value)]
      [] modifier_type = "Increment" -> [m EXCEPT !["bri_inc"] = Some(value)]
      [] modifier_type = "Decrement" -> [m EXCEPT !["bri_inc"] = Some(0 - value)]

\* StateModifier::saturation
saturation(m, modifier_type, value) ==
    CASE modifier_type = "Override" -> [m EXCEPT !["sat"] = Some(value)]
      [] modifier_type = "Increment" -> [m EXCEPT !["sat_inc"] = Some(value)]
      [] modifier_type = "Decrement" -> [m EXCEPT !["sat_inc"] = Some(0 - value)]

\* color_space_coordinates as it would be with the mixed types swapped.
color_space_coordinates_swapped(m, modifier_type, value) ==
    CASE modifier_type = "Override" -> [m EXCEPT !["xy"] = Some(value)]
      [] modifier_type = "Increment" -> [m EXCEPT !["xy_inc"] = Some(value)]
      [] modifier_type = "Decrement" ->
           [m EXCEPT !["xy_inc"] = Some(<<0 - value[1], 0 - value[2]>>)]
      [] modifier_type = "IncrementDecrement" ->
           [m EXCEPT !["xy_inc"] = Some(<<0 - value[1], value[2]>>)]
      [] modifier_type = "DecrementIncrement" ->
           [m EXCEPT !["xy_inc"] = Some(<<value[1], 0 - value[2]>>)]

\* StateModifier::color_space_coordinates; a coordinate is a number, here
\* in tenths.
color_space_coordinates(m, modifier_type, value) ==
    CASE modifier_type = "Override" -> [m EXCEPT !["xy"] = Some(value)]
      [] modifier_type = "Increment" -> [m EXCEPT !["xy_inc"] = Some(value)]
      [] modifier_type = "Decrement" ->
           [m EXCEPT !["xy_inc"] = Some(<<0 - value[1], 0 - value[2]>>)]
      [] modifier_type = "IncrementDecrement" ->
           [m EXCEPT !["xy_inc"] = Some(<<value[1], 0 - value[2]>>)]
      [] modifier_type = "DecrementIncrement" ->
           [m EXCEPT !["xy_inc"] = Some(<<0 - value[1], value[2]>>)]

ModifierTypes == {"Override", "Increment", "Decrement"}
CoordinateModifierTypes ==
    {"Override", "Increment", "Decrement", "IncrementDecrement", "DecrementIncrement"}
ModifierValues == {40, 200}
CoordinateValues == {<<1, 2>>, <<3, 1>>}

\* The modifiers handed to set_* in the bridge specification: a fresh one and
\* the one of the crate's example.
ModifierInputs ==
    {ModifierNew, saturation(brightness(ModifierNew, "Increment", 40), "Override", 200)}

\* Creators serialize to an object the bridge reads; its content plays no
\* part in how the answer is interpreted.
CreatorInputs == {[name |-> "scene"]}

----------------------------------------------------------------------------
(* bridge.rs: the operations of Bridge *)

\* The loop as it would be if it looked at the last entry alone.
try_each_last(response) ==
    IF response = <<>> THEN Ok(Unit)
    ELSE IF ~into_result(response[Len(response)]).ok
    THEN into_result(response[Len(response)])
    ELSE Ok(Unit)

\* `for i in response { i.into_result()?; } Ok(())`
RECURSIVE try_each(_)
try_each(response) ==
    IF response = <<>> THEN Ok(Unit)
    ELSE IF ~into_result(Head(response)).ok THEN into_result(Head(response))
    ELSE try_each(Tail(response))

\* The match as it would be if a missing id were reported as a parse error.
created_id_parse(response) ==
    IF response = <<>> THEN Err("GetCreatedId")
    ELSE LET v == into_result(response[Len(response)])
         IN IF ~v.ok THEN v
            ELSE IF "id" \in DOMAIN v.val THEN Ok(v.val["id"])
            ELSE Err("ParseJson")

\* `match response.pop() { Some(v) => match v.into_result()?.get("id") ... }`
created_id(response) ==
    IF response = <<>> THEN Err("GetCreatedId")
    ELSE LET v == into_result(response[Len(response)])
         IN IF ~v.ok THEN v
            ELSE IF "id" \in DOMAIN v.val THEN Ok(v.val["id"])
            ELSE Err("GetCreatedId")

\* serde_json::to_value(..)?: the serialized value, or the serde_json::Error
\* that `?` turns into Error::ParseJson; ser is what serde reports.
serialize(v, ser) == IF ser = "ok" THEN Ok(v) ELSE Err("ParseJson")
SerializeOutcomes == {"ok", "error"}

\* set_* as it would be if the request went out before the body's
\* serialization was looked at.
set_resource_sends_first(b, url_suffix, modifier, ser, t) ==
    LET body == serialize(to_value(modifier), ser)
        r == api_request(b, url_suffix, RequestTypePut(to_value(modifier)),
                         "VecResponseModified", t)
    IN IF ~body.ok THEN Outcome(r.sent, body) ELSE r

\* set_* as it would be if the outcomes stopped at the first error entry.
set_resource_truncating(b, url_suffix, modifier, ser, t) ==
    LET body == serialize(to_value(modifier), ser)
        r == IF ~body.ok THEN Outcome(<<>>, body)
             ELSE api_request(b, url_suffix, RequestTypePut(body.val),
                              "VecResponseModified", t)
        errs == IF r.result.ok
                THEN {i \in 1..Len(r.result.val) : r.result.val[i].variant = "Error"}
                ELSE {}
        first == CHOOSE i \in errs : \A j \in errs : i <= j
    IN IF errs = {} THEN r
       ELSE Outcome(r.sent, Ok(SubSeq(r.result.val, 1, first - 1)))

\* set_config, set_light_attribute, set_light_state, set_group_attribute, ...
set_resource(b, url_suffix, modifier, ser, t) ==
    LET body == serialize(to_value(modifier), ser)
    IN IF ~body.ok THEN Outcome(<<>>, body)
       ELSE api_request(b, url_suffix, RequestTypePut(body.val),
                        "VecResponseModified", t)

\* get_config, get_capabilities
get_config(b, url_suffix, t) ==
    LET r == api_request(b, url_suffix, RequestTypeGet, "Value", t)
    IN IF ~r.result.ok THEN r
       ELSE Outcome(r.sent, parse_response("Resource", r.result.val))

\* get_light, get_group, get_scene, ...
get_resource(b, res, id, t) ==
    LET r == api_request(b, <<res, id>>, RequestTypeGet, "Value", t)
        p == parse_response("Resource", r.result.val)
    IN IF ~r.result.ok THEN r
       ELSE IF ~p.ok THEN Outcome(r.sent, p)
       ELSE Outcome(r.sent, Ok(with_id(p.val, id)))

\* get_all_* as it would be without the identifier injection.
get_all_resources_uninjected(b, res, t, order) ==
    LET r == api_request(b, <<res>>, RequestTypeGet, "Value", t)
        p == parse_response("Collection", r.result.val)
    IN IF ~r.result.ok THEN r
       ELSE IF ~p.ok THEN Outcome(r.sent, p)
       ELSE Outcome(r.sent, Ok([i \in 1..Len(order) |-> p.val[order[i]]]))

\* get_all_lights, get_all_groups, ...; order is the order in which the
\* HashMap hands out its entries.
get_all_resources(b, res, t, order) ==
    LET r == api_request(b, <<res>>, RequestTypeGet, "Value", t)
        p == parse_response("Collection", r.result.val)
    IN IF ~r.result.ok THEN r
       ELSE IF ~p.ok THEN Outcome(r.sent, p)
       ELSE Outcome(r.sent,
                    Ok([i \in 1..Len(order) |-> with_id(p.val[order[i]], order[i])]))

\* delete_* as it would be if it took its result from the last entry the way
\* create_* does and treated a response without entries as undecodable.
delete_resource_pop(b, res, id, t) ==
    LET r == api_request(b, <<res, id>>, RequestTypeDelete, "VecResponseValue", t)
    IN IF ~r.result.ok THEN r
       ELSE IF r.result.val = <<>> THEN Outcome(r.sent, Err("ParseJson"))
       ELSE Outcome(r.sent, try_each(r.result.val))

\* delete_light, delete_group, ...
delete_resource(b, res, id, t) ==
    LET r == api_request(b, <<res, id>>, RequestTypeDelete, "VecResponseValue", t)
    IN IF ~r.result.ok THEN r
       ELSE Outcome(r.sent, try_each(r.result.val))

\* search_new_lights, search_new_sensors
search_new_resources(b, res, device_ids, t) ==
    LET body == IF device_ids = None THEN "" ELSE <<"deviceid", device_ids[1]>>
        r == api_request(b, <<res>>, RequestTypePost(body), "VecResponseValue", t)
    IN IF ~r.result.ok THEN r
       ELSE Outcome(r.sent, try_each(r.result.val))

\* create_group, create_scene, create_schedule, create_resourcelink, create_rule
create_resource(b, res, creator, ser, t) ==
    LET body == serialize(creator, ser)
        r == api_request(b, <<res>>, RequestTypePost(body.val), "VecResponseMap", t)
    IN IF ~body.ok THEN Outcome(<<>>, body)
       ELSE IF ~r.result.ok THEN r
       ELSE Outcome(r.sent, created_id(r.result.val))

----------------------------------------------------------------------------
(* The client as a state machine *)

VARIABLES
    bridge,     \* the Bridge value the caller holds
    call,       \* the operation that ran last, with its arguments
    reply,      \* what the transport answered to it
    sent,       \* the requests that operation issued
    result,     \* what it returned
    modifier,   \* a modifier under construction
    builds,     \* builder calls made on it
    calls       \* those calls, oldest first

vars == <<bridge, call, reply, sent, result, modifier, builds, calls>>

SetSuffixes ==
    {<<"config">>}
      \cup UNION { { <<"lights", id>>, <<"lights", id, "state">>,
                     <<"groups", id>>, <<"groups", id, "action">>,
                     <<"scenes", id>>, <<"schedules", id>>, <<"resourcelinks", id>>,
                     <<"sensors", id>>, <<"sensors", id, "state">>,
                     <<"sensors", id, "config">>, <<"rules", id>> } : id \in Ids }
PlainSuffixes == {<<"config">>, <<"capabilities">>}
Resources ==
    {"lights", "groups", "scenes", "schedules", "resourcelinks", "sensors", "rules"}
Creatable == {"groups", "scenes", "schedules", "resourcelinks", "rules"}
Searchable == {"lights", "sensors"}
DeviceIds == {None, Some("dev")}

\* The orders in which a HashMap of the decoded collection may be walked.
Orders(t) ==
    LET p == IF t.kind = "json" THEN parse_response("Collection", t.value)
             ELSE Err("ParseHttpResponse")
    IN IF ~p.ok THEN {<<>>}
       ELSE { o \in [1..Cardinality(DOMAIN p.val) -> DOMAIN p.val] :
                \A i, j \in DOMAIN o : i # j => o[i] # o[j] }

Init ==
    /\ bridge = BridgeNew("192.168.1.2", "example-username")
    /\ call = [op |-> "none"]
    /\ reply = [kind |-> "none"]
    /\ sent = <<>>
    /\ result = Ok(Unit)
    /\ modifier = ModifierNew
    /\ builds = 0
    /\ calls = <<>>

\* No call is in progress: the client is synchronous, one call at a time.
Idle == call.op = "none"

Return(c, t, o) ==
    /\ call' = c
    /\ reply' = IF o.sent = <<>> THEN [kind |-> "none"] ELSE t
    /\ sent' = o.sent
    /\ result' = o.result
    /\ UNCHANGED <<bridge, modifier, builds, calls>>

SetResource ==
    /\ Idle
    /\ \E suffix \in SetSuffixes, m \in ModifierInputs, ser \in SerializeOutcomes,
          t \in TransportOutcomes :
        Return([op |-> "set", suffix |-> suffix, modifier |-> m, serialize |-> ser], t,
               set_resource(bridge, suffix, m, ser, t))

GetConfig ==
    /\ Idle
    /\ \E suffix \in PlainSuffixes, t \in TransportOutcomes :
        Return([op |-> "get_plain", suffix |-> suffix], t, get_config(bridge, suffix, t))

GetResource ==
    /\ Idle
    /\ \E res \in Resources, id \in Ids, t \in TransportOutcomes :
        Return([op |-> "get", res |-> res, id |-> id], t,
               get_resource(bridge, res, id, t))

GetAllResources ==
    /\ Idle
    /\ \E res \in Resources, t \in TransportOutcomes :
        \E order \in Orders(t) :
            Return([op |-> "get_all", res |-> res], t,
                   get_all_resources(bridge, res, t, order))

DeleteResource ==
    /\ Idle
    /\ \E res \in Resources, id \in Ids, t \in TransportOutcomes :
        Return([op |-> "delete", res |-> res, id |-> id], t,
               delete_resource(bridge, res, id, t))

SearchNewResources ==
    /\ Idle
    /\ \E res \in Searchable, d \in DeviceIds, t \in TransportOutcomes :
        Return([op |-> "search_new", res |-> res, device_ids |-> d], t,
               search_new_resources(bridge, res, d, t))

CreateResource ==
    /\ Idle
    /\ \E res \in Creatable, c \in CreatorInputs, ser \in SerializeOutcomes,
          t \in TransportOutcomes :
        Return([op |-> "create", res |-> res, creator |-> c, serialize |-> ser], t,
               create_resource(bridge, res, c, ser, t))

RegisterUser ==
    /\ Idle
    /\ \E generate_clientkey \in BOOLEAN, t \in UserTransportOutcomes :
        Return([op |-> "register_user", ip_address |-> bridge.ip_address,
                devicetype |-> "huelib-rs example",
                generate_clientkey |-> generate_clientkey], t,
               register_user(bridge.ip_address, "huelib-rs example",
                             generate_clientkey, t))

\* The caller takes the result; the next call starts from scratch.
Finish ==
    /\ ~Idle
    /\ call' = [op |-> "none"]
    /\ reply' = [kind |-> "none"]
    /\ sent' = <<>>
    /\ result' = Ok(Unit)
    /\ UNCHANGED <<bridge, modifier, builds, calls>>

Next ==
    \/ Finish
    \/ SetResource
    \/ GetConfig
    \/ GetResource
    \/ GetAllResources
    \/ DeleteResource
    \/ SearchNewResources
    \/ CreateResource
    \/ RegisterUser

Spec == Init /\ [][Next]_vars

----------------------------------------------------------------------------
(* The public fields of Bridge: `pub username`, `pub ip_address` *)

Usernames == {"example-username", "other-username"}
IpAddresses == {"192.168.1.2", "192.168.1.3"}

\* `bridge.username = u`: the field is assigned, api_url is private and
\* nothing recomputes it.
AssignUsername ==
    /\ Idle
    /\ \E u \in Usernames : bridge' = [bridge EXCEPT !.username = u]
    /\ UNCHANGED <<call, reply, sent, result, modifier, builds, calls>>

\* `bridge.ip_address = ip`
AssignIpAddress ==
    /\ Idle
    /\ \E ip \in IpAddresses : bridge' = [bridge EXCEPT !.ip_address = ip]
    /\ UNCHANGED <<call, reply, sent, result, modifier, builds, calls>>

NextFields ==
    \/ Finish
    \/ SetResource
    \/ GetConfig
    \/ GetResource
    \/ GetAllResources
    \/ DeleteResource
    \/ SearchNewResources
    \/ CreateResource
    \/ RegisterUser
    \/ AssignUsername
    \/ AssignIpAddress

SpecFields == Init /\ [][NextFields]_vars

----------------------------------------------------------------------------
(* Building a modifier: Modifier::new() followed by builder calls *)

\* Builder calls made on one modifier.
MaxBuilds == 3

InitModifier == Init

Built(m) ==
    /\ builds < MaxBuilds
    /\ modifier' = m
    /\ builds' = builds + 1
    /\ UNCHANGED <<bridge, call, reply, sent, result>>

BuilderCall(setter, modifier_type, value) ==
    [setter |-> setter, type |-> modifier_type, value |-> value]

On ==
    \E value \in BOOLEAN :
        /\ Built(on(modifier, value))
        /\ calls' = Append(calls, BuilderCall("on", "Override", value))

Brightness ==
    \E modifier_type \in ModifierTypes, value \in ModifierValues :
        /\ Built(brightness(modifier, modifier_type, value))
        /\ calls' = Append(calls, BuilderCall("brightness", modifier_type, value))

Saturation ==
    \E modifier_type \in ModifierTypes, value \in ModifierValues :
        /\ Built(saturation(modifier, modifier_type, value))
        /\ calls' = Append(calls, BuilderCall("saturation", modifier_type, value))

ColorSpaceCoordinates ==
    \E modifier_type \in CoordinateModifierTypes, value \in CoordinateValues :
        /\ Built(color_space_coordinates(modifier, modifier_type, value))
        /\ calls' = Append(calls, BuilderCall("color_space_coordinates",
                                              modifier_type, value))

NextModifier ==
    \/ On
    \/ Brightness
    \/ Saturation
    \/ ColorSpaceCoordinates

SpecModifier == InitModifier /\ [][NextModifier]_vars

----------------------------------------------------------------------------
(* Vocabulary of the properties: the raw answer of the transport *)

\* The transport answered with a JSON array.
RepliedArray == ~Idle /\ reply.kind = "json" /\ reply.value.kind = "array"

\* ... every element of which is a success or an error entry.
RepliedBulk ==
    /\ RepliedArray
    /\ \A i \in 1..Len(reply.value.elems) :
           reply.value.elems[i].tag \in {"success", "error"}

ErrorPositions(es) == {i \in 1..Len(es) : es[i].tag = "error"}
FirstErrorData(es) ==
    es[CHOOSE i \in ErrorPositions(es) : \A j \in ErrorPositions(es) : i <= j].data

\* Every success payload of the array is an object of strings.
StringPayloads(es) ==
    \A i \in 1..Len(es) :
        es[i].tag = "success" =>
            \A k \in DOMAIN es[i].payload : es[i].payload[k].type = "string"

\* Every success payload of the array names at least one path.
PathPayloads(es) ==
    \A i \in 1..Len(es) : es[i].tag = "success" => DOMAIN es[i].payload # {}

----------------------------------------------------------------------------
(* C1 *)

\* C1: delete_* and search_new_* return Ok(()) exactly when the bulk response
\* array holds no error entry, and otherwise the bridge error of the first
\* error entry in array order.
C1_FirstFailureWins ==
    (call.op \in {"delete", "search_new"} /\ RepliedBulk) =>
        IF ErrorPositions(reply.value.elems) = {}
        THEN result.ok /\ result.val = Unit
        ELSE IsResponseErr(result, FirstErrorData(reply.value.elems))

\* A delete whose answer is [success, error, another error]: the middle entry
\* is the one reported.
C1_Witness ==
    /\ call.op = "delete"
    /\ RepliedBulk
    /\ Len(reply.value.elems) = 3
    /\ reply.value.elems[1].tag = "success"
    /\ reply.value.elems[2].tag = "error"
    /\ reply.value.elems[3].tag = "error"
    /\ reply.value.elems[2].data # reply.value.elems[3].data
    /\ IsResponseErr(result, reply.value.elems[2].data)

----------------------------------------------------------------------------
(* C2 *)

\* C2: a read routed through parse_response whose answer is a bulk array
\* with an error entry at any position fails with the bridge error of the
\* first error entry.
C2_ReadReportsFirstError ==
    (/\ call.op \in {"get", "get_all", "get_plain"}
     /\ RepliedBulk
     /\ ErrorPositions(reply.value.elems) # {}) =>
        IsResponseErr(result, FirstErrorData(reply.value.elems))

----------------------------------------------------------------------------
(* C3 *)

\* C3: create_* returns Ok(identifier) only for a bulk array without error
\* entries; with an error entry at any position it fails with the bridge
\* error of the first one.
C3_CreateReportsFirstError ==
    (call.op = "create" /\ RepliedBulk /\ StringPayloads(reply.value.elems)) =>
        /\ result.ok => ErrorPositions(reply.value.elems) = {}
        /\ ErrorPositions(reply.value.elems) # {} =>
               IsResponseErr(result, FirstErrorData(reply.value.elems))

----------------------------------------------------------------------------
(* C4 *)

\* The success payload a create_* call takes its result from: the last entry
\* of a response that decoded.
CreateUsedPayload ==
    /\ call.op = "create"
    /\ RepliedBulk
    /\ StringPayloads(reply.value.elems)
    /\ Len(reply.value.elems) > 0
    /\ reply.value.elems[Len(reply.value.elems)].tag = "success"

\* C4: when the success payload create_* uses has no "id" key the call
\* returns Error::GetCreatedId; when it has one the call returns Ok with
\* that key's value.
C4_MissingIdentifier ==
    CreateUsedPayload =>
        LET p == reply.value.elems[Len(reply.value.elems)].payload
        IN IF "id" \in DOMAIN p
           THEN result.ok /\ result.val = p["id"].text
           ELSE IsErr(result, "GetCreatedId")

\* A create answered with a success payload that carries a name but no id.
C4_Witness ==
    /\ CreateUsedPayload
    /\ DOMAIN reply.value.elems[Len(reply.value.elems)].payload = {"name"}
    /\ IsErr(result, "GetCreatedId")

----------------------------------------------------------------------------
(* C5 *)

\* The transport answered with a collection: an object mapping identifiers
\* to resource bodies.
RepliedCollection ==
    /\ ~Idle
    /\ reply.kind = "json"
    /\ reply.value.kind = "map"
    /\ \A k \in DOMAIN reply.value.items : "name" \in DOMAIN reply.value.items[k]

\* C5: get_all_* returns one object per key of the collection, each with its
\* key as id whatever id its body carries; get_*(id) returns an object whose
\* id is the id argument.
C5_IdentifierInjection ==
    /\ (call.op = "get_all" /\ RepliedCollection) =>
           /\ result.ok
           /\ Len(result.val) = Cardinality(DOMAIN reply.value.items)
           /\ {result.val[i].id : i \in 1..Len(result.val)} = DOMAIN reply.value.items
           /\ \A i \in 1..Len(result.val) :
                  result.val[i].name = reply.value.items[result.val[i].id]["name"]
    /\ (call.op = "get" /\ result.ok) => result.val.id = call.id

\* A get_all over two keys, one body carrying an id that is not its key.
C5_Witness ==
    /\ call.op = "get_all"
    /\ RepliedCollection
    /\ DOMAIN reply.value.items = {"1", "2"}
    /\ "id" \in DOMAIN reply.value.items["1"]
    /\ reply.value.items["1"]["id"] = "9"
    /\ result.ok
    /\ Len(result.val) = 2

----------------------------------------------------------------------------
(* C6 *)

\* The answer is JSON that is not a bulk array: decoding it as a list of
\* success/error entries fails structurally.
RepliedUnwrapped == ~Idle /\ reply.kind = "json" /\ ~RepliedBulk

\* The answer decodes directly as a resource struct.
DirectResource ==
    reply.value.kind = "object" /\ "name" \in DOMAIN reply.value.members

\* The answer decodes directly as a collection of resource structs.
DirectCollection ==
    \/ reply.value.kind = "object" /\ DOMAIN reply.value.members = {}
    \/ RepliedCollection

\* C6: when the bulk decoding fails structurally, parse_response yields what
\* decoding the value directly as the target type yields: the value, or a
\* parse error; the failed attempt is not reported.
C6_DualModeDecoding ==
    /\ (call.op \in {"get", "get_plain"} /\ RepliedUnwrapped) =>
           IF DirectResource
           THEN result.ok /\ result.val.name = reply.value.members["name"]
           ELSE IsErr(result, "ParseJson")
    /\ (call.op = "get_all" /\ RepliedUnwrapped) =>
           IF DirectCollection
           THEN result.ok
           ELSE IsErr(result, "ParseJson")

\* get_config answered with a plain object that decodes.
C6_Witness ==
    /\ call.op = "get_plain"
    /\ RepliedUnwrapped
    /\ DirectResource
    /\ result.ok
    /\ result.val.name = "lamp"

----------------------------------------------------------------------------
(* C7 *)

\* The operation that ran got as far as the transport: its body, if it has
\* one to serialize, was serialized.
ReachedTransport ==
    ~Idle /\ (call.op \in {"set", "create"} => call.serialize = "ok")

\* C7: an operation that reached the transport issued exactly one request,
\* whatever it returned; no operation issued more than one.
C7_ExactlyOneRequest ==
    /\ Len(sent) <= 1
    /\ ReachedTransport => Len(sent) = 1

\* An operation that failed at the transport, with its single request.
C7_Witness ==
    /\ ~Idle
    /\ reply.kind = "neterr"
    /\ IsErr(result, "ParseHttpResponse")
    /\ Len(sent) = 1

----------------------------------------------------------------------------
(* C8 *)

\* C8: set_* called with a modifier for which is_empty() holds issues no
\* request.
C8_EmptyModifierSkipsRequest ==
    (call.op = "set" /\ is_empty(call.modifier)) => sent = <<>>

----------------------------------------------------------------------------
(* C9 *)

\* C9: is_empty() holds exactly when no builder call was made, and a
\* modifier for which it holds serializes to the empty object.
C9_EmptyIffNoBuilderCalls ==
    /\ is_empty(modifier) <=> builds = 0
    /\ is_empty(modifier) => DOMAIN to_value(modifier) = {}
    /\ builds = 0 => DOMAIN to_value(modifier) = {}

\* Two builder calls, one of them an increment: the modifier is not empty.
C9_Witness ==
    /\ builds = 2
    /\ modifier["bri_inc"] # None
    /\ ~is_empty(modifier)

----------------------------------------------------------------------------
(* C10 *)

\* C10: set_* returns Ok with one outcome per element of the bulk response
\* array, in response order, success and error entries alike.
C10_OneOutcomePerEntry ==
    (call.op = "set" /\ RepliedBulk /\ PathPayloads(reply.value.elems)) =>
        /\ result.ok
        /\ Len(result.val) = Len(reply.value.elems)
        /\ \A i \in 1..Len(reply.value.elems) :
               IF reply.value.elems[i].tag = "success"
               THEN /\ result.val[i].variant = "Success"
                    /\ result.val[i].value = reply.value.elems[i].payload
               ELSE /\ result.val[i].variant = "Error"
                    /\ result.val[i].error = reply.value.elems[i].data

\* A set answered [success, error, success]: three outcomes come back.
C10_Witness ==
    /\ call.op = "set"
    /\ RepliedBulk
    /\ PathPayloads(reply.value.elems)
    /\ Len(reply.value.elems) = 3
    /\ reply.value.elems[1].tag = "success"
    /\ reply.value.elems[2].tag = "error"
    /\ reply.value.elems[3].tag = "success"
    /\ result.ok
    /\ Len(result.val) = 3

----------------------------------------------------------------------------
(* C11 *)

\* What the call c returns when the transport answers t.
Rerun(c, t) ==
    CASE c.op = "set" ->
           set_resource(bridge, c.suffix, c.modifier, c.serialize, t).result
      [] c.op = "get_plain" -> get_config(bridge, c.suffix, t).result
      [] c.op = "get" -> get_resource(bridge, c.res, c.id, t).result
      [] c.op = "get_all" -> get_all_resources(bridge, c.res, t, <<>>).result
      [] c.op = "delete" -> delete_resource(bridge, c.res, c.id, t).result
      [] c.op = "search_new" ->
           search_new_resources(bridge, c.res, c.device_ids, t).result
      [] c.op = "create" ->
           create_resource(bridge, c.res, c.creator, c.serialize, t).result
      [] c.op = "register_user" ->
           register_user(c.ip_address, c.devicetype, c.generate_clientkey, t).result

\* The kind of a result: "Ok", or the Error variant.
KindOf(r) == IF r.ok THEN "Ok" ELSE r.err

\* A body that is not JSON, a JSON body of the wrong shape, and a bulk
\* array whose only entry is an error.
NotJson == [kind |-> "badjson"]
WrongShape == [kind |-> "json", value |-> JScalar]
BridgeFailure ==
    [kind |-> "json",
     value |-> JArray(<<ErrorEntry(CHOOSE e \in ErrorData : TRUE)>>)]

\* C11: the error kind of a transport failure differs from the kind the same
\* call reports for a body that is not JSON, for a body of the wrong shape,
\* and for a bridge-reported error entry.
C11_DistinctErrorKinds ==
    (~Idle /\ reply.kind = "neterr") =>
        /\ ~result.ok
        /\ KindOf(result) # KindOf(Rerun(call, NotJson))
        /\ KindOf(result) # KindOf(Rerun(call, WrongShape))
        /\ KindOf(result) # KindOf(Rerun(call, BridgeFailure))

----------------------------------------------------------------------------
(* C12 *)

\* The answer to register_user decoded: a bulk array whose success payloads
\* are users.
RepliedUsers ==
    /\ call.op = "register_user"
    /\ RepliedBulk
    /\ \A i \in 1..Len(reply.value.elems) :
           reply.value.elems[i].tag = "success" =>
               /\ "username" \in DOMAIN reply.value.elems[i].payload
               /\ \A k \in DOMAIN reply.value.elems[i].payload :
                      reply.value.elems[i].payload[k].type = "string"

\* C12: register_user returns Ok(User) or one of ParseHttpResponse,
\* ParseJson, Response, GetUsername; an error entry used for the result
\* comes back as Error::Response.
C12_RegisterUserErrors ==
    call.op = "register_user" =>
        /\ \/ result.ok
           \/ result.err \in {"ParseHttpResponse", "ParseJson", "Response", "GetUsername"}
        /\ result.ok =>
               /\ RepliedUsers
               /\ Len(reply.value.elems) > 0
               /\ reply.value.elems[Len(reply.value.elems)].tag = "success"
               /\ result.val.name =
                      reply.value.elems[Len(reply.value.elems)].payload["username"].text
        /\ (/\ RepliedUsers
            /\ Len(reply.value.elems) > 0
            /\ reply.value.elems[Len(reply.value.elems)].tag = "error") =>
               IsResponseErr(result, reply.value.elems[Len(reply.value.elems)].data)
        /\ (RepliedUsers /\ Len(reply.value.elems) = 0) => IsErr(result, "GetUsername")

\* register_user answered with an error entry and then the user.
C12_Witness ==
    /\ RepliedUsers
    /\ Len(reply.value.elems) = 2
    /\ reply.value.elems[1].tag = "error"
    /\ reply.value.elems[2].tag = "success"
    /\ result.ok
    /\ result.val.name = "u1"

----------------------------------------------------------------------------
(* Vocabulary of the properties: the builder calls made *)

\* The wire key a builder call writes.
WireKey(c) ==
    CASE c.setter = "on" -> "on"
      [] c.setter = "brightness" -> IF c.type = "Override" THEN "bri" ELSE "bri_inc"
      [] c.setter = "saturation" -> IF c.type = "Override" THEN "sat" ELSE "sat_inc"
      [] c.setter = "color_space_coordinates" ->
           IF c.type = "Override" THEN "xy" ELSE "xy_inc"

\* The value a builder call puts on the wire: a decrement is the negated
\* value, a mixed coordinate type negates one component.
WireValue(c) ==
    CASE c.setter = "color_space_coordinates" ->
           CASE c.type = "Decrement" -> <<0 - c.value[1], 0 - c.value[2]>>
             [] c.type = "IncrementDecrement" -> <<c.value[1], 0 - c.value[2]>>
             [] c.type = "DecrementIncrement" -> <<0 - c.value[1], c.value[2]>>
             [] OTHER -> c.value
      [] c.type = "Decrement" -> 0 - c.value
      [] OTHER -> c.value

\* The fields the calls so far have touched, and the last call on each.
Touched == {WireKey(calls[i]) : i \in 1..Len(calls)}
LastCallOn(f) ==
    calls[CHOOSE i \in 1..Len(calls) :
              /\ WireKey(calls[i]) = f
              /\ \A j \in 1..Len(calls) : WireKey(calls[j]) = f => j <= i]

\* The calls were overrides of pairwise different fields.
DistinctOverrides ==
    /\ \A i \in 1..Len(calls) : calls[i].type = "Override"
    /\ \A i, j \in 1..Len(calls) : i # j => WireKey(calls[i]) # WireKey(calls[j])

\* The modifier a sequence of calls builds from a fresh one.
Apply(m, c) ==
    CASE c.setter = "on" -> on(m, c.value)
      [] c.setter = "brightness" -> brightness(m, c.type, c.value)
      [] c.setter = "saturation" -> saturation(m, c.type, c.value)
      [] c.setter = "color_space_coordinates" ->
           color_space_coordinates(m, c.type, c.value)

RECURSIVE ApplyAll(_, _)
ApplyAll(m, cs) == IF cs = <<>> THEN m ELSE ApplyAll(Apply(m, Head(cs)), Tail(cs))

Reorderings ==
    { o \in [1..Len(calls) -> 1..Len(calls)] :
        \A i, j \in 1..Len(calls) : i # j => o[i] # o[j] }

----------------------------------------------------------------------------
(* C13 *)

\* C13: every touched field appears in the serialized object holding the
\* value of the last call on it, whatever was set before or in between.
C13_LastWriteWins ==
    \A f \in Touched :
        /\ f \in DOMAIN to_value(modifier)
        /\ to_value(modifier)[f] = WireValue(LastCallOn(f))

\* brightness overridden with 40, something else set, brightness overridden
\* with 200: the object holds 200.
C13_Witness ==
    /\ Len(calls) = 3
    /\ calls[1].setter = "brightness" /\ calls[1].type = "Override"
    /\ calls[1].value = 40
    /\ calls[2].setter = "on"
    /\ calls[3].setter = "brightness" /\ calls[3].type = "Override"
    /\ calls[3].value = 200
    /\ to_value(modifier)["bri"] = 200

----------------------------------------------------------------------------
(* C14 *)

\* C14: a pair set with IncrementDecrement(dx, dy) is stored as (+dx, -dy),
\* with DecrementIncrement(dx, dy) as (-dx, +dy); a coordinate field in the
\* serialized object always holds both components.
C14_PairedCoordinates ==
    /\ "xy_inc" \in Touched =>
           LET c == LastCallOn("xy_inc")
           IN /\ c.type = "IncrementDecrement" =>
                     to_value(modifier)["xy_inc"] = <<c.value[1], 0 - c.value[2]>>
              /\ c.type = "DecrementIncrement" =>
                     to_value(modifier)["xy_inc"] = <<0 - c.value[1], c.value[2]>>
    /\ \A f \in {"xy", "xy_inc"} \cap DOMAIN to_value(modifier) :
           Len(to_value(modifier)[f]) = 2

\* The pair (1, 2) set with IncrementDecrement: the object holds (1, -2).
C14_Witness ==
    /\ Len(calls) > 0
    /\ calls[Len(calls)].setter = "color_space_coordinates"
    /\ calls[Len(calls)].type = "IncrementDecrement"
    /\ calls[Len(calls)].value = <<1, 2>>
    /\ to_value(modifier)["xy_inc"] = <<1, -2>>

----------------------------------------------------------------------------
(* C15 *)

\* C15: the serialized object has exactly the touched fields as keys; after
\* overrides of different fields each key holds the value passed, and the
\* object is the one every other order of the same calls yields.
C15_ExactlyTouchedFields ==
    /\ DOMAIN to_value(modifier) = Touched
    /\ DistinctOverrides =>
           /\ \A i \in 1..Len(calls) :
                  to_value(modifier)[WireKey(calls[i])] = calls[i].value
           /\ \A o \in Reorderings :
                  to_value(ApplyAll(ModifierNew, [i \in 1..Len(calls) |-> calls[o[i]]]))
                      = to_value(modifier)

\* Three different fields overridden.
C15_Witness ==
    /\ Len(calls) = 3
    /\ DistinctOverrides
    /\ DOMAIN to_value(modifier) = {"on", "bri", "xy"}

----------------------------------------------------------------------------
(* C16 *)

\* C16: set_* and create_* serialize the body before anything is sent: a
\* request that went out carries the serialized body, and when serialization
\* fails the call returns that error and no request goes out.
C16_SerializeBeforeSend ==
    call.op \in {"set", "create"} =>
        /\ call.serialize = "error" =>
               /\ sent = <<>>
               /\ reply.kind = "none"
               /\ IsErr(result, "ParseJson")
        /\ call.serialize = "ok" =>
               /\ Len(sent) = 1
               /\ call.op = "set" => sent[1].body = to_value(call.modifier)
               /\ call.op = "create" => sent[1].body = call.creator

\* set_* with a modifier that fails to serialize: an error and no request.
C16_Witness ==
    /\ call.op = "set"
    /\ call.serialize = "error"
    /\ sent = <<>>
    /\ IsErr(result, "ParseJson")

----------------------------------------------------------------------------
(* C17 *)

\* The bridge answered with the empty JSON array.
RepliedEmptyArray == RepliedArray /\ Len(reply.value.elems) = 0

\* C17: on the empty array create_* returns Error::GetCreatedId,
\* register_user returns Error::GetUsername and delete_* / search_new_*
\* return Ok(()); a create_* that returns Ok(id) took the id from a success
\* entry of the response.
C17_EmptyBulkResponse ==
    /\ RepliedEmptyArray =>
           /\ call.op = "create" => IsErr(result, "GetCreatedId")
           /\ call.op = "register_user" => IsErr(result, "GetUsername")
           /\ call.op \in {"delete", "search_new"} =>
                  result.ok /\ result.val = Unit
    /\ (call.op = "create" /\ result.ok) =>
           /\ RepliedArray
           /\ \E i \in 1..Len(reply.value.elems) :
                  /\ reply.value.elems[i].tag = "success"
                  /\ "id" \in DOMAIN reply.value.elems[i].payload
                  /\ reply.value.elems[i].payload["id"].text = result.val

\* A delete answered with the empty array returned Ok(()).
C17_Witness ==
    /\ RepliedEmptyArray
    /\ call.op = "delete"
    /\ result.ok

\* A create answered with the empty array returned Error::GetCreatedId.
C17_WitnessCreate ==
    /\ RepliedEmptyArray
    /\ call.op = "create"
    /\ IsErr(result, "GetCreatedId")

----------------------------------------------------------------------------
(* C18 *)

\* The base URL the bridge's current fields spell.
CurrentBase == <<"http://", bridge.ip_address, "/api/", bridge.username>>

\* C18: every request of a Bridge operation goes to
\* http://{ip_address}/api/{username}/{suffix} with the ip_address and
\* username the Bridge has when the operation is called.
C18_CurrentTarget ==
    (~Idle /\ call.op # "register_user" /\ sent # <<>>) =>
        /\ sent[1].url[1] = CurrentBase
        /\ sent[1].url[2] = "/"

\* No operation changes username, ip_address or the base URL: only an
\* assignment changes the bridge.
OperationsKeepBridge ==
    [][bridge' # bridge => (call = call' /\ Idle)]_vars

\* The base URL is the one Bridge::new computed, whatever was assigned since.
BaseUrlFromNew ==
    bridge.api_url = BridgeNew("192.168.1.2", "example-username").api_url

====
